---- MODULE Spec2Model ----
(***************************************************************************)
(* Shape, index and module-state model of lib/layers.py: crop_center and   *)
(* the modules Conv2DBNActiv, Encoder, Decoder, ASPPModule and LSTMModule. *)
(*                                                                         *)
(* A behaviour is one Python session.  Init is the state right after a     *)
(* module has been constructed (or after no module has been constructed,   *)
(* kind = "none", when only the free function crop_center is used) with    *)
(* the argument tensors at hand.  Every action is one call.                *)
(*                                                                         *)
(* A tensor is represented by its shape <<N, C, H, W>>; where the code     *)
(* moves elements around (slicing, permute, reshape) the elements are      *)
(* carried along as labels so that their positions can be compared.        *)
(***************************************************************************)
EXTENDS Integers, Sequences, FiniteSets, TLC

VARIABLES self, training, num_batches_tracked, args, ret

vars == <<self, training, num_batches_tracked, args, ret>>

-----------------------------------------------------------------------------
(* Bounds of the explored inputs.                                          *)

MaxDim == 3
MaxTracked == 2
MaxNoutLstm == 4
MaxDilation == 2

BatchSizes == {1, 2}
Channels == {1, 2}
Dims == 1 .. MaxDim
Strides == {1, 2}
KernelPads == {<<3, 1>>, <<1, 0>>, <<3, 0>>}

(* The shapes of the tensors passed to the modules, and to crop_center.    *)
Shapes == BatchSizes \X Channels \X Dims \X Dims
CropShapes == BatchSizes \X Channels \X Dims \X (1 .. 2 * MaxDim)

(* The skip tensors tried with an input x of Decoder.forward: frequency    *)
(* size equal to that of the upsampled x or not, time width below, equal   *)
(* to and above it.                                                        *)
SkipsFor(x) ==
    BatchSizes \X Channels \X {2 * x[3], 2 * x[3] + 1}
               \X ((2 * x[4] - 1) .. (2 * x[4] + 2))

None == <<>>

Min(a, b) == IF a < b THEN a ELSE b
Max(a, b) == IF a > b THEN a ELSE b

-----------------------------------------------------------------------------
(* Python slicing seq[s:e] (step 1) of a sequence of n items: negative     *)
(* positions count from the end and both ends are clamped to 0 .. n.       *)

PySliceBounds(n, s, e) ==
    LET norm(i) == IF i < 0 THEN Max(i + n, 0) ELSE Min(i, n)
    IN  <<norm(s), norm(e)>>

PySlice(seq, s, e) ==
    LET b == PySliceBounds(Len(seq), s, e)
    IN  IF b[1] < b[2] THEN SubSeq(seq, b[1] + 1, b[2]) ELSE <<>>

(* The labels of the columns (positions along dim 3) of a fresh tensor.    *)
Columns(shape) == [j \in 1 .. shape[4] |-> j - 1]

-----------------------------------------------------------------------------
(* crop_center(h1, h2).  The result is a record: status "ok" with the      *)
(* shape of the returned tensor and the h1 columns it is made of, or the   *)
(* exception raised.                                                       *)

Raise(exc, at) ==
    [status |-> exc, where |-> at, shape |-> None, cols |-> <<>>]

(* Variant: the frequency sizes are validated like the time widths.        *)
crop_too_small_any_dim(h1, h2) == h1[3] < h2[3] \/ h1[4] < h2[4]

crop_too_small(h1, h2) == h1[4] < h2[4]

(* Variant: the offset is rounded up.                                      *)
s_time_rounded_up(h1, h2) == (h1[4] - h2[4] + 1) \div 2

s_time(h1, h2) == (h1[4] - h2[4]) \div 2

(* Variant: the end of the window is not moved by the offset.              *)
e_time_from_zero(h1, h2) == h2[4]

e_time(h1, h2) == s_time(h1, h2) + h2[4]

crop_center(h1, h2) ==
    IF h1[4] = h2[4]
    THEN [status |-> "ok", where |-> "", shape |-> h1, cols |-> Columns(h1)]
    ELSE IF crop_too_small(h1, h2)
    THEN Raise("ValueError", "crop_center")
    ELSE LET cols == PySlice(Columns(h1), s_time(h1, h2), e_time(h1, h2))
         IN  [status |-> "ok", where |-> "",
              shape |-> <<h1[1], h1[2], h1[3], Len(cols)>>, cols |-> cols]

-----------------------------------------------------------------------------
(* The layers of the modules that own a batch normalisation, by the        *)
(* attribute name they have in the module that owns them.                  *)

AllLayers ==
    {"conv", "conv1", "conv2", "conv3", "conv4", "conv5", "bottleneck", "dense"}

(* The statistics a batch normalisation normalises with while training     *)
(* are those of the batch itself, not the running ones.                    *)
BatchStats == [l \in AllLayers |-> -1]

(* The intermediate result of a forward pass: the exception raised so far  *)
(* (status "ok" if none), the shape of the current tensor, the             *)
(* num_batches_tracked buffers as updated so far, the shapes of the        *)
(* intermediate tensors (mid) and, in LSTMModule, the elements (h).        *)
Start(x) ==
    [status |-> "ok", where |-> "", shape |-> x,
     tracked |-> num_batches_tracked, mid |-> <<>>, h |-> None]

Fail(r, exc, at) ==
    [r EXCEPT !.status = exc, !.where = at, !.shape = None, !.h = None]

Note(r) == IF r.status = "ok" THEN [r EXCEPT !.mid = Append(@, r.shape)] ELSE r

(* nn.Conv2d: the size of one spatial dimension of the output.             *)
conv_out(d, ksize, stride, pad, dilation) ==
    ((d + 2 * pad - dilation * (ksize - 1) - 1) \div stride) + 1

(* nn.Conv2d accepts the input if it has nin channels and the dilated      *)
(* kernel is not larger than the padded input.                             *)
conv_accepts(shape, nin, ksize, pad, dilation) ==
    /\ shape[2] = nin
    /\ shape[3] + 2 * pad >= dilation * (ksize - 1) + 1
    /\ shape[4] + 2 * pad >= dilation * (ksize - 1) + 1

Conv2d(shape, nout, ksize, stride, pad, dilation) ==
    <<shape[1], nout,
      conv_out(shape[3], ksize, stride, pad, dilation),
      conv_out(shape[4], ksize, stride, pad, dilation)>>

(* nn.BatchNorm2d / nn.BatchNorm1d while training: num_batches_tracked is  *)
(* incremented, then more than one value per channel is required, and the  *)
(* running statistics are updated.  values is the number of values per     *)
(* channel.                                                                *)
BatchNorm(layer, values, r) ==
    IF training
    THEN IF values = 1
         THEN Fail([r EXCEPT !.tracked[layer] = @ + 1], "ValueError", layer)
         ELSE [r EXCEPT !.tracked[layer] = @ + 1]
    ELSE r

(* Conv2DBNActiv.forward: convolution, batch normalisation, activation.    *)
Conv2DBNActiv(layer, nin, nout, ksize, stride, pad, dilation, r) ==
    IF r.status # "ok" THEN r
    ELSE IF ~conv_accepts(r.shape, nin, ksize, pad, dilation)
    THEN Fail(r, "RuntimeError", layer)
    ELSE BatchNorm(layer,
                   r.shape[1] * conv_out(r.shape[3], ksize, stride, pad, dilation)
                              * conv_out(r.shape[4], ksize, stride, pad, dilation),
                   [r EXCEPT !.shape = Conv2d(@, nout, ksize, stride, pad, dilation)])

(* Encoder.forward: conv1, then conv2.                                     *)
Encoder_conv1(r) ==
    Conv2DBNActiv("conv1", self.nin, self.nout, self.ksize, self.stride,
                  self.pad, 1, r)

(* Variant: conv2 is built with the stride of the constructor too.         *)
Encoder_conv2_strided(r) ==
    Conv2DBNActiv("conv2", self.nout, self.nout, self.ksize, self.stride,
                  self.pad, 1, r)

Encoder_conv2(r) ==
    Conv2DBNActiv("conv2", self.nout, self.nout, self.ksize, 1, self.pad, 1, r)

Encoder(x) == Encoder_conv2(Note(Encoder_conv1(Start(x))))

(* F.interpolate(x, scale_factor=2, mode=...): both modes give the same    *)
(* output size, floor(2 * size).                                           *)
interpolate(x, mode) == <<x[1], x[2], 2 * x[3], 2 * x[4]>>

(* torch.cat(tensors, dim=1): every size but that of dim 1 must agree.     *)
cat_accepts(shapes) ==
    \A i \in 1 .. Len(shapes) :
        /\ shapes[i][1] = shapes[1][1]
        /\ shapes[i][3] = shapes[1][3]
        /\ shapes[i][4] = shapes[1][4]

RECURSIVE SumChannels(_)
SumChannels(shapes) ==
    IF shapes = <<>> THEN 0 ELSE Head(shapes)[2] + SumChannels(Tail(shapes))

cat(shapes) == <<shapes[1][1], SumChannels(shapes), shapes[1][3], shapes[1][4]>>

(* Decoder.forward: the upsampling, the crop of the skip and the           *)
(* concatenation (mid: the upsampled x, then the cropped skip), conv1.     *)
Decoder_upsample(x, fixed_length) ==
    Note(Start(interpolate(x, IF fixed_length THEN "bilinear" ELSE "nearest")))

(* Variant: the skip is concatenated as it is.                             *)
Decoder_crop_skipped(skip, r) == [r EXCEPT !.mid = Append(@, skip)]

Decoder_crop(skip, r) ==
    IF crop_center(skip, r.shape).status # "ok"
    THEN Fail(r, crop_center(skip, r.shape).status, "crop_center")
    ELSE [r EXCEPT !.mid = Append(@, crop_center(skip, r.shape).shape)]

Decoder_cat(r) ==
    IF r.status # "ok" THEN r
    ELSE IF ~cat_accepts(r.mid) THEN Fail(r, "RuntimeError", "cat")
    ELSE [r EXCEPT !.shape = cat(r.mid)]

(* Variant: conv1 is built with the stride of the constructor.             *)
Decoder_conv1_strided(r) ==
    Conv2DBNActiv("conv1", self.nin, self.nout, self.ksize, self.stride,
                  self.pad, 1, r)

Decoder_conv1(r) ==
    Conv2DBNActiv("conv1", self.nin, self.nout, self.ksize, 1, self.pad, 1, r)

Decoder(x, skip, fixed_length) ==
    IF skip = None
    THEN Decoder_conv1(Decoder_upsample(x, fixed_length))
    ELSE Decoder_conv1(Decoder_cat(Decoder_crop(skip, Decoder_upsample(x, fixed_length))))

(* Mean(dim=-2, keepdims=True) and Tensor.repeat(1, 1, h, 1).              *)
Mean(x) == <<x[1], x[2], 1, x[4]>>

(* Variant: the repetition is along the time axis.                         *)
repeat_time(x, h) == <<x[1], x[2], x[3], x[4] * h>>

repeat(x, h) == <<x[1], x[2], x[3] * h, x[4]>>

(* ASPPModule.forward: the five branches in the order the code runs them,  *)
(* each on the input x (mid: feat1 .. feat5), their concatenation (mid:    *)
(* then the concatenated tensor) and the bottleneck.                       *)
ASPP_branch(layer, ksize, pad, dilation, x, r) ==
    IF r.status # "ok" THEN r
    ELSE Conv2DBNActiv(layer, self.nin, self.nout, ksize, 1, pad, dilation,
                       [r EXCEPT !.shape = x])

ASPP_repeat(h, r) ==
    IF r.status # "ok" THEN r ELSE [r EXCEPT !.shape = repeat(@, h)]

ASPP_feat1(x, r) == Note(ASPP_repeat(x[3], ASPP_branch("conv1", 1, 0, 1, Mean(x), r)))

ASPP_feat2(x, r) == Note(ASPP_branch("conv2", 1, 0, 1, x, r))

ASPP_feat3(x, r) ==
    Note(ASPP_branch("conv3", 3, self.dilations[1], self.dilations[1], x, r))

ASPP_feat4(x, r) ==
    Note(ASPP_branch("conv4", 3, self.dilations[2], self.dilations[2], x, r))

ASPP_feat5(x, r) ==
    Note(ASPP_branch("conv5", 3, self.dilations[3], self.dilations[3], x, r))

ASPP_cat(r) ==
    IF r.status # "ok" THEN r
    ELSE IF ~cat_accepts(r.mid) THEN Fail(r, "RuntimeError", "cat")
    ELSE Note([r EXCEPT !.shape = cat(r.mid)])

ASPP_bottleneck(r) ==
    Conv2DBNActiv("bottleneck", self.nout * 5, self.nout, 1, 1, 0, 1, r)

ASPPModule(x) ==
    ASPP_bottleneck(ASPP_cat(
        ASPP_feat5(x, ASPP_feat4(x, ASPP_feat3(x, ASPP_feat2(x,
            ASPP_feat1(x, Start(x))))))))

-----------------------------------------------------------------------------
(* Tensors with their elements, for LSTMModule.forward: a shape and the    *)
(* elements in row-major order.  Indices are 0-based as in the code.       *)

RECURSIVE Prod(_)
Prod(seq) == IF seq = <<>> THEN 1 ELSE Head(seq) * Prod(Tail(seq))

numel(shape) == Prod(shape)

(* The multi-index of the element at flat position i, and back.            *)
Unravel(i, shape) ==
    [k \in 1 .. Len(shape) |->
        (i \div Prod(SubSeq(shape, k + 1, Len(shape)))) % shape[k]]

RECURSIVE Ravel(_, _)
Ravel(idx, shape) ==
    IF idx = <<>> THEN 0
    ELSE Head(idx) * Prod(Tail(shape)) + Ravel(Tail(idx), Tail(shape))

At(t, idx) == t.data[Ravel(idx, t.shape) + 1]

(* The multi-index of the i-th element (i from 1) in row-major order.      *)
Index(i, shape) == Unravel(i - 1, shape)

(* Tensor.permute(dims): dimension k of the result is dimension dims[k] of *)
(* the tensor.                                                             *)
permuted_shape(shape, dims) == [k \in 1 .. Len(dims) |-> shape[dims[k] + 1]]

permuted_from(idx, dims) ==
    [d \in 1 .. Len(dims) |-> idx[CHOOSE k \in 1 .. Len(dims) : dims[k] + 1 = d]]

permute(t, dims) ==
    [shape |-> permuted_shape(t.shape, dims),
     data  |-> [i \in 1 .. numel(t.shape) |->
                  At(t, permuted_from(Index(i, permuted_shape(t.shape, dims)), dims))]]

(* Tensor.reshape(shape): the elements keep their row-major order.         *)
reshape_accepts(t, shape) == numel(shape) = numel(t.shape)

reshape(t, shape) == [shape |-> shape, data |-> t.data]

(* t[:, 0]: index 0 of dim 1 is selected and the dimension dropped.        *)
select_channel0_at(t, idx) == At(t, <<idx[1], 0, idx[2], idx[3]>>)

select_channel0(t) ==
    [shape |-> <<t.shape[1], t.shape[3], t.shape[4]>>,
     data  |-> [i \in 1 .. t.shape[1] * t.shape[3] * t.shape[4] |->
                  select_channel0_at(t, Index(i, <<t.shape[1], t.shape[3], t.shape[4]>>))]]

(* The output of the 1x1 convolution block of LSTMModule: element          *)
(* [n, 0, b, t] is computed from bin b of frame t of batch item n.         *)
LSTM_conv_element(idx) == [item |-> idx[1], bin |-> idx[3], frame |-> idx[4]]

LSTM_conv_tensor(shape) ==
    [shape |-> shape,
     data  |-> [i \in 1 .. numel(shape) |-> LSTM_conv_element(Index(i, shape))]]

(* nn.LSTM (bidirectional, sequence first) on (seq_len, batch, input_size):*)
(* output row (l, b) has 2 * hidden_size features and is computed from the *)
(* input row (l, b), which is taken as the bins 0, 1, ... of one frame of  *)
(* one batch item; a row that is not such a row is marked -1.              *)
lstm_row(t, l, b) ==
    LET first == At(t, <<l, b, 0>>)
        whole == \A f \in 0 .. t.shape[3] - 1 :
                    At(t, <<l, b, f>>) =
                        [item |-> first.item, bin |-> f, frame |-> first.frame]
    IN  IF whole THEN [item |-> first.item, frame |-> first.frame]
        ELSE [item |-> -1, frame |-> -1]

lstm_element(t, idx) ==
    [item  |-> lstm_row(t, idx[1], idx[2]).item,
     frame |-> lstm_row(t, idx[1], idx[2]).frame,
     j     |-> idx[3]]

lstm(t, hidden_size) ==
    [shape |-> <<t.shape[1], t.shape[2], 2 * hidden_size>>,
     data  |-> [i \in 1 .. t.shape[1] * t.shape[2] * 2 * hidden_size |->
                  lstm_element(t, Index(i, <<t.shape[1], t.shape[2], 2 * hidden_size>>))]]

(* nn.Linear followed by BatchNorm1d and ReLU on (rows, in_features):      *)
(* output element (r, b) is feature b of the row computed from input row   *)
(* r, which is taken as the features 0, 1, ... of one LSTM output row.     *)
dense_row(t, r) ==
    LET first == At(t, <<r, 0>>)
        whole == \A j \in 0 .. t.shape[2] - 1 :
                    At(t, <<r, j>>) =
                        [item |-> first.item, frame |-> first.frame, j |-> j]
    IN  IF whole THEN [item |-> first.item, frame |-> first.frame]
        ELSE [item |-> -1, frame |-> -1]

dense_element(t, idx) ==
    [item  |-> dense_row(t, idx[1]).item,
     frame |-> dense_row(t, idx[1]).frame,
     row   |-> idx[1],
     feat  |-> idx[2]]

dense(t, out_features) ==
    [shape |-> <<t.shape[1], out_features>>,
     data  |-> [i \in 1 .. t.shape[1] * out_features |->
                  dense_element(t, Index(i, <<t.shape[1], out_features>>))]]

(* LSTMModule.__init__: the sizes the layers are built with.              *)
LSTM_hidden_size == self.nout_lstm \div 2

LSTM_dense_in_features == self.nout_lstm

(* LSTMModule.forward, line by line.                                       *)
LSTM_conv(r) ==
    Conv2DBNActiv("conv", self.nin_conv, 1, 1, 1, 0, 1, r)

LSTM_permute(r) ==
    IF r.status # "ok" THEN r
    ELSE [r EXCEPT !.h = permute(select_channel0(LSTM_conv_tensor(r.shape)),
                                 <<2, 0, 1>>)]

LSTM_lstm(r) ==
    IF r.status # "ok" THEN r
    ELSE IF r.h.shape[3] # self.nin_lstm THEN Fail(r, "RuntimeError", "lstm")
    ELSE [r EXCEPT !.h = lstm(@, LSTM_hidden_size)]

LSTM_rows(r) ==
    IF r.status # "ok" THEN r
    ELSE [r EXCEPT !.h = reshape(@, <<numel(@.shape) \div @.shape[3], @.shape[3]>>)]

LSTM_dense(r) ==
    IF r.status # "ok" THEN r
    ELSE IF r.h.shape[2] # LSTM_dense_in_features
    THEN Fail(r, "RuntimeError", "dense")
    ELSE BatchNorm("dense", r.h.shape[1], [r EXCEPT !.h = dense(@, self.nin_lstm)])

LSTM_reshape(N, nbins, nframes, r) ==
    IF r.status # "ok" THEN r
    ELSE IF ~reshape_accepts(r.h, <<nframes, N, 1, nbins>>)
    THEN Fail(r, "RuntimeError", "reshape")
    ELSE [r EXCEPT !.h = permute(reshape(@, <<nframes, N, 1, nbins>>), <<1, 2, 3, 0>>),
                   !.shape = <<N, 1, nbins, nframes>>]

LSTMModule(x) ==
    LSTM_reshape(x[1], x[3], x[4],
        LSTM_dense(LSTM_rows(LSTM_lstm(LSTM_permute(LSTM_conv(Start(x)))))))

-----------------------------------------------------------------------------
(* The state: the module constructed (self, with its mode and the          *)
(* num_batches_tracked buffer of each of its batch normalisations), the    *)
(* argument tensors at hand (args) and what the last call returned or      *)
(* raised (ret).                                                           *)

NoModule ==
    [kind |-> "none", nin |-> 0, nout |-> 0, ksize |-> 0, stride |-> 0,
     pad |-> 0, dilation |-> 0, dilations |-> <<>>, dropout |-> FALSE,
     nin_conv |-> 0, nin_lstm |-> 0, nout_lstm |-> 0]

NotCalled ==
    [status |-> "none", where |-> "", training |-> TRUE, shape |-> None,
     cols |-> <<>>, mid |-> <<>>, stats |-> BatchStats, mask |-> {},
     data |-> <<>>]

(* nn.Dropout2d(0.1), when the module has one: while training a random     *)
(* set of channels is zeroed.  (Variant first: in evaluation mode too.)    *)
Dropout2d_in_eval(channels) ==
    IF self.dropout THEN SUBSET (1 .. channels) ELSE {{}}

Dropout2d(channels) ==
    IF self.dropout /\ training THEN SUBSET (1 .. channels) ELSE {{}}

(* What forward returns (or raises) given its last intermediate result r   *)
(* and the dropout mask, with the mode the call ran in.  The values of     *)
(* the output depend on the input, on the statistics the batch             *)
(* normalisations used and on the mask.                                    *)
Returned(r, mask) ==
    IF r.status = "ok"
    THEN [status |-> "ok", where |-> "", training |-> training,
          shape |-> r.shape, cols |-> <<>>, mid |-> r.mid,
          stats |-> IF training THEN BatchStats ELSE num_batches_tracked,
          mask |-> mask,
          data |-> IF self.kind = "LSTMModule" THEN r.h.data ELSE <<>>]
    ELSE [NotCalled EXCEPT !.status = r.status, !.where = r.where,
                           !.training = training, !.mid = r.mid]

(* A training-mode forward increments num_batches_tracked; the explored    *)
(* runs stop training once a buffer has reached MaxTracked.                *)
Tracked_room ==
    training => \A l \in AllLayers : num_batches_tracked[l] < MaxTracked

Conv2DBNActiv_init ==
    \E nin \in Channels, nout \in Channels, kp \in KernelPads,
       stride \in Strides, dilation \in 1 .. MaxDilation :
        self = [NoModule EXCEPT !.kind = "Conv2DBNActiv", !.nin = nin,
                    !.nout = nout, !.ksize = kp[1], !.pad = kp[2],
                    !.stride = stride, !.dilation = dilation]

Encoder_init ==
    \E nin \in Channels, nout \in Channels, kp \in KernelPads, stride \in Strides :
        self = [NoModule EXCEPT !.kind = "Encoder", !.nin = nin, !.nout = nout,
                    !.ksize = kp[1], !.pad = kp[2], !.stride = stride]

Decoder_init ==
    \E nin \in Channels \cup {1 + c : c \in Channels}, nout \in Channels,
       stride \in Strides, dropout \in BOOLEAN :
        self = [NoModule EXCEPT !.kind = "Decoder", !.nin = nin, !.nout = nout,
                    !.ksize = 3, !.pad = 1, !.stride = stride,
                    !.dropout = dropout]

ASPPModule_init ==
    \E nin \in Channels, nout \in Channels, dropout \in BOOLEAN,
       dilations \in (1 .. MaxDilation) \X (1 .. MaxDilation) \X (1 .. MaxDilation) :
        self = [NoModule EXCEPT !.kind = "ASPPModule", !.nin = nin, !.nout = nout,
                    !.dilations = dilations, !.dropout = dropout]

LSTMModule_init ==
    \E nin_conv \in Channels, nin_lstm \in Dims, nout_lstm \in 2 .. MaxNoutLstm :
        self = [NoModule EXCEPT !.kind = "LSTMModule", !.nin_conv = nin_conv,
                    !.nin_lstm = nin_lstm, !.nout_lstm = nout_lstm]

Init ==
    /\ training = TRUE
    /\ num_batches_tracked = [l \in AllLayers |-> 0]
    /\ ret = NotCalled
    /\ \/ /\ self = NoModule
          /\ \E h1 \in CropShapes, h2 \in CropShapes :
                args = [x |-> h1, skip |-> h2, fixed_length |-> TRUE]
       \/ /\ Conv2DBNActiv_init \/ Encoder_init \/ ASPPModule_init \/ LSTMModule_init
          /\ \E x \in Shapes :
                args = [x |-> x, skip |-> None, fixed_length |-> TRUE]
       \/ /\ Decoder_init
          /\ \E x \in Shapes, fixed_length \in BOOLEAN :
                \E skip \in {None} \cup SkipsFor(x) :
                    args = [x |-> x, skip |-> skip, fixed_length |-> fixed_length]

-----------------------------------------------------------------------------
(* The calls.                                                              *)

call_crop_center ==
    /\ self.kind = "none"
    /\ ret' = [NotCalled EXCEPT
                  !.status = crop_center(args.x, args.skip).status,
                  !.where = crop_center(args.x, args.skip).where,
                  !.shape = crop_center(args.x, args.skip).shape,
                  !.cols = crop_center(args.x, args.skip).cols]
    /\ UNCHANGED <<self, training, num_batches_tracked, args>>

(* One forward call: a dropout mask is drawn, the result is returned or    *)
(* the exception raised, and the buffers keep the updates made so far.     *)
Forward(r) ==
    /\ Tracked_room
    /\ \E mask \in Dropout2d(self.nout) : ret' = Returned(r, mask)
    /\ num_batches_tracked' = r.tracked
    /\ UNCHANGED <<self, training, args>>

Conv2DBNActiv_forward ==
    /\ self.kind = "Conv2DBNActiv"
    /\ Forward(Conv2DBNActiv("conv", self.nin, self.nout, self.ksize,
                             self.stride, self.pad, self.dilation, Start(args.x)))

Encoder_forward ==
    /\ self.kind = "Encoder"
    /\ Forward(Encoder(args.x))

Decoder_forward ==
    /\ self.kind = "Decoder"
    /\ Forward(Decoder(args.x, args.skip, args.fixed_length))

ASPPModule_forward ==
    /\ self.kind = "ASPPModule"
    /\ Forward(ASPPModule(args.x))

LSTMModule_forward ==
    /\ self.kind = "LSTMModule"
    /\ Forward(LSTMModule(args.x))

(* nn.Module.train() and nn.Module.eval().                                 *)
train ==
    /\ self.kind # "none"
    /\ training' = TRUE
    /\ UNCHANGED <<self, num_batches_tracked, args, ret>>

eval ==
    /\ self.kind # "none"
    /\ training' = FALSE
    /\ UNCHANGED <<self, num_batches_tracked, args, ret>>

Next ==
    \/ call_crop_center
    \/ Conv2DBNActiv_forward
    \/ Encoder_forward
    \/ Decoder_forward
    \/ ASPPModule_forward
    \/ LSTMModule_forward
    \/ train
    \/ eval

Spec == Init /\ [][Next]_vars

-----------------------------------------------------------------------------
(* Properties.                                                             *)

Cropped == self.kind = "none" /\ ret.status # "none"

Forwarded(kind) == self.kind = kind /\ ret.status # "none"

(* C1: crop_center raises ValueError exactly when h1 is narrower in time   *)
(* (dim 3) than h2; with equal widths it returns h1 unchanged, with a      *)
(* larger width it returns without error; the sizes of dims 0, 1 and 2     *)
(* play no part.                                                           *)
C1_RaisesIffNarrower ==
    Cropped =>
        /\ ret.status \in {"ok", "ValueError"}
        /\ ret.status = "ValueError" <=> args.x[4] < args.skip[4]
        /\ args.x[4] = args.skip[4] =>
              ret.shape = args.x /\ ret.cols = Columns(args.x)

C1_Witness ==
    /\ Cropped
    /\ ret.status = "ok"
    /\ args.x[4] > args.skip[4]
    /\ args.x[1] # args.skip[1]
    /\ args.x[2] # args.skip[2]
    /\ args.x[3] < args.skip[3]

(* C2: when h1 is at least as wide as h2, crop_center returns a tensor of  *)
(* exactly the time width of h2 with the batch, channel and frequency      *)
(* sizes of h1.                                                            *)
C2_CroppedShape ==
    (Cropped /\ args.x[4] >= args.skip[4]) =>
        /\ ret.status = "ok"
        /\ ret.shape = <<args.x[1], args.x[2], args.x[3], args.skip[4]>>
        /\ Len(ret.cols) = args.skip[4]

C2_Witness ==
    /\ Cropped
    /\ ret.status = "ok"
    /\ args.x[4] = args.skip[4] + 2
    /\ args.x[3] # args.skip[3]

(* C9: when h1 is wider than h2, the result is the centred window of h1:   *)
(* column j is column s + j of h1 with s = floor((w1 - w2) / 2), at most   *)
(* as many columns are dropped on the left as on the right, at most one    *)
(* more on the right, and the window lies inside h1.                       *)
C9_CentredWindow ==
    (Cropped /\ args.x[4] > args.skip[4]) =>
        LET w1 == args.x[4]
            w2 == args.skip[4]
            s  == (w1 - w2) \div 2
        IN  /\ ret.status = "ok"
            /\ DOMAIN ret.cols = 1 .. w2
            /\ \A j \in 0 .. w2 - 1 : ret.cols[j + 1] = s + j
            /\ s <= w1 - w2 - s
            /\ (w1 - w2 - s) - s <= 1
            /\ s >= 0
            /\ s + w2 <= w1
            /\ \A j \in 1 .. w2 : ret.cols[j] \in 0 .. w1 - 1

C9_Witness ==
    /\ Cropped
    /\ ret.status = "ok"
    /\ args.x[4] = args.skip[4] + 3
    /\ ret.cols[1] = 1

(* C3 as stated: in Decoder.forward with a skip at least as wide as the    *)
(* upsampled x, the cropped skip and the upsampled x agree in frequency    *)
(* and in time, and the concatenation is accepted.                         *)
C3_Original ==
    (Forwarded("Decoder") /\ args.skip # None /\ args.skip[4] >= 2 * args.x[4]) =>
        /\ Len(ret.mid) = 2
        /\ ret.mid[2][3] = ret.mid[1][3]
        /\ ret.mid[2][4] = ret.mid[1][4]
        /\ ret.where # "cat"

(* C3 amended: in Decoder.forward with a skip at least as wide as the      *)
(* upsampled x, crop_center makes the time widths equal and leaves the     *)
(* frequency size of the skip as it was; the concatenation is accepted     *)
(* exactly when the skip has the batch size of x and twice its frequency   *)
(* size.                                                                   *)
C3_TimeAlignedOnly ==
    (Forwarded("Decoder") /\ args.skip # None /\ args.skip[4] >= 2 * args.x[4]) =>
        /\ Len(ret.mid) = 2
        /\ ret.mid[1] = <<args.x[1], args.x[2], 2 * args.x[3], 2 * args.x[4]>>
        /\ ret.mid[2][4] = ret.mid[1][4]
        /\ ret.mid[2][3] = args.skip[3]
        /\ ret.where = "cat" <=>
              ~(args.skip[1] = args.x[1] /\ args.skip[3] = 2 * args.x[3])

C3_Witness ==
    /\ Forwarded("Decoder")
    /\ args.skip # None
    /\ args.skip[4] = 2 * args.x[4] + 2
    /\ args.skip[3] = 2 * args.x[3]
    /\ ret.status = "ok"

(* C4 as stated: no forward call changes the state of the module, and a    *)
(* forward call returns what the previous call with the same input         *)
(* returned.  (The steps that keep the mode are the forward calls; all     *)
(* the calls of a run have the same input.)                                *)
C4_Original ==
    [][(self.kind # "none" /\ training' = training) =>
          /\ num_batches_tracked' = num_batches_tracked
          /\ (ret.status = "ok" /\ ret'.status = "ok") =>
                (ret'.shape = ret.shape /\ ret'.stats = ret.stats
                    /\ ret'.mask = ret.mask /\ ret'.data = ret.data)]_vars

(* C4 amended: in evaluation mode no forward call changes the state of     *)
(* the module, and a forward call returns what the previous evaluation-    *)
(* mode call with the same input returned if no training-mode forward      *)
(* ran in between (the buffers are those the previous call used).          *)
C4_PureInEval ==
    [][(self.kind # "none" /\ training' = training /\ ~training) =>
          /\ num_batches_tracked' = num_batches_tracked
          /\ (ret.status = "ok" /\ ~ret.training
                /\ ret.stats = num_batches_tracked) => ret' = ret]_vars

C4_Witness ==
    /\ self.kind = "Decoder"
    /\ self.dropout
    /\ ~training
    /\ ret.status = "ok"
    /\ ~ret.training
    /\ ret.stats = num_batches_tracked
    /\ num_batches_tracked["conv1"] > 0

(* C5: LSTMModule.forward on an input (N, nin_conv, nbins, nframes) with   *)
(* nbins = nin_lstm returns shape (N, 1, nbins, nframes), and output       *)
(* element [n, 0, b, t] is feature b of the dense-layer row with index     *)
(* t * N + n, the row computed from frame t of batch item n.               *)
C5_ReshapedBack ==
    (Forwarded("LSTMModule") /\ args.x[2] = self.nin_conv
        /\ args.x[3] = self.nin_lstm) =>
        LET N == args.x[1]
            nbins == args.x[3]
            nframes == args.x[4]
            out == [shape |-> ret.shape, data |-> ret.data]
        IN  /\ ret.status = "ok"
            /\ ret.shape = <<N, 1, nbins, nframes>>
            /\ \A n \in 0 .. N - 1, b \in 0 .. nbins - 1, t \in 0 .. nframes - 1 :
                  At(out, <<n, 0, b, t>>) =
                      [item |-> n, frame |-> t, row |-> t * N + n, feat |-> b]

(* C10: for every nout_lstm >= 2 the feature width of the bidirectional    *)
(* LSTM output, 2 * (nout_lstm // 2), is the input width of the dense      *)
(* layer, so that the dense layer accepts the LSTM output.                 *)
C10_LstmFeedsDense ==
    (self.kind = "LSTMModule" /\ self.nout_lstm >= 2) =>
        /\ 2 * LSTM_hidden_size = LSTM_dense_in_features
        /\ ret.where # "dense"

(* The shapes C6 is about: the five branch outputs, their concatenation    *)
(* and the output of ASPPModule.forward.                                   *)
C6_Shapes ==
    LET N == args.x[1]
        h == args.x[3]
        w == args.x[4]
        branch == <<N, self.nout, h, w>>
    IN  /\ ret.status = "ok"
        /\ Len(ret.mid) = 6
        /\ \A i \in 1 .. 5 : ret.mid[i] = branch
        /\ ret.mid[6] = <<N, 5 * self.nout, h, w>>
        /\ ret.shape = branch

(* C6 as stated: for every input (N, nin, h, w) and positive dilations     *)
(* the five branch outputs of ASPPModule.forward have shape                *)
(* (N, nout, h, w), their concatenation has 5 * nout channels and the      *)
(* output has shape (N, nout, h, w).                                       *)
C6_Original ==
    (Forwarded("ASPPModule") /\ args.x[2] = self.nin) => C6_Shapes

(* C6 amended: the same, for a call in evaluation mode or on an input      *)
(* with N * w > 1 (while training, the batch normalisation of the          *)
(* frequency-mean branch raises ValueError on a single value per channel). *)
C6_BranchShapes ==
    (Forwarded("ASPPModule") /\ args.x[2] = self.nin
        /\ (~ret.training \/ args.x[1] * args.x[4] > 1)) => C6_Shapes

C6_Witness ==
    /\ Forwarded("ASPPModule")
    /\ ret.status = "ok"
    /\ ret.training
    /\ args.x[3] > 1
    /\ args.x[3] # args.x[4]
    /\ self.dilations[1] # self.dilations[2]
    /\ self.nin # self.nout

(* The sizes Encoder is claimed to produce from a spatial size d.          *)
C7_d1(d) == ((d + 2 * self.pad - self.ksize) \div self.stride) + 1

C7_d2(d) == C7_d1(d) + 2 * self.pad - self.ksize + 1

C7_Sizes ==
    /\ ret.status = "ok"
    /\ ret.mid = <<<<args.x[1], self.nout, C7_d1(args.x[3]), C7_d1(args.x[4])>>>>
    /\ ret.shape = <<args.x[1], self.nout, C7_d2(args.x[3]), C7_d2(args.x[4])>>
    /\ (self.ksize = 3 /\ self.pad = 1) =>
          /\ ret.shape[3] = ((args.x[3] - 1) \div self.stride) + 1
          /\ ret.shape[4] = ((args.x[4] - 1) \div self.stride) + 1

(* C7 as stated: Encoder applies its stride in conv1 only; a spatial size  *)
(* d becomes d1 = floor((d + 2p - k) / s) + 1 after conv1 and              *)
(* d1 + 2p - k + 1 after conv2, with nout channels; with k = 3, p = 1 the  *)
(* output size is floor((d - 1) / s) + 1.                                  *)
C7_Original ==
    (Forwarded("Encoder") /\ args.x[2] = self.nin) => C7_Sizes

(* C7 amended: the same, for the calls in which the kernel fits the        *)
(* padded input of both convolutions (d + 2p >= k and d1 + 2p >= k for     *)
(* both spatial sizes) and which, in training mode, give each batch        *)
(* normalisation more than one value per channel.                          *)
C7_Fits ==
    /\ \A d \in {args.x[3], args.x[4]} :
          /\ d + 2 * self.pad >= self.ksize
          /\ C7_d1(d) + 2 * self.pad >= self.ksize
    /\ ret.training =>
          /\ args.x[1] * C7_d1(args.x[3]) * C7_d1(args.x[4]) > 1
          /\ args.x[1] * C7_d2(args.x[3]) * C7_d2(args.x[4]) > 1

C7_StrideInConv1Only ==
    (Forwarded("Encoder") /\ args.x[2] = self.nin /\ C7_Fits) => C7_Sizes

C7_Witness ==
    /\ Forwarded("Encoder")
    /\ ret.status = "ok"
    /\ self.stride = 2
    /\ self.ksize = 3
    /\ self.pad = 1
    /\ args.x[3] = 3
    /\ args.x[4] = 2
    /\ ret.shape[3] = 2
    /\ ret.shape[4] = 1

C8_Channels ==
    IF args.skip = None THEN args.x[2] = self.nin
    ELSE args.x[2] + args.skip[2] = self.nin

C8_Doubled ==
    /\ ret.status = "ok"
    /\ ret.shape = <<args.x[1], self.nout, 2 * args.x[3], 2 * args.x[4]>>

(* C8 as stated: Decoder.forward on (N, C, H, W), with an optional skip    *)
(* whose channels add up with C to nin, returns (N, nout, 2H, 2W) whatever *)
(* the stride argument, fixed_length and the dropout flag.                 *)
C8_Original ==
    (Forwarded("Decoder") /\ C8_Channels) => C8_Doubled

(* C8 amended: the same, for a skip (when one is given) of batch size N,   *)
(* frequency size 2H and time width at least 2W.                           *)
C8_SkipFits ==
    args.skip # None =>
        /\ args.skip[1] = args.x[1]
        /\ args.skip[3] = 2 * args.x[3]
        /\ args.skip[4] >= 2 * args.x[4]

C8_DoublesWhateverStride ==
    (Forwarded("Decoder") /\ C8_Channels /\ C8_SkipFits) => C8_Doubled

C8_Witness ==
    /\ Forwarded("Decoder")
    /\ ret.status = "ok"
    /\ self.stride = 2
    /\ self.dropout
    /\ ~args.fixed_length
    /\ args.skip # None
    /\ args.skip[4] > 2 * args.x[4]
    /\ ret.shape[3] = 2 * args.x[3]

====
